---------------------------- MODULE Spec2Model ----------------------------
(***************************************************************************)
(* A model of src/common/windows/http_upload.cc, google_airbag::HTTPUpload: *)
(* the multipart/form-data uploader built on WinInet.                      *)
(*                                                                         *)
(* Text is modelled by what it is in memory: a wstring is a sequence of    *)
(* UTF-16 code units (numbers), a string / vector<char> is a sequence of   *)
(* bytes (numbers 0..255).  String literals of the source are written as   *)
(* their byte values, with the literal in the comment above them.          *)
(***************************************************************************)
EXTENDS Integers, Sequences, FiniteSets, TLC

(***************************************************************************)
(* Bounds of the model.                                                    *)
(***************************************************************************)
\* the largest number of entries of a parameters map
MaxParams == 2
\* the longest file contents, in bytes
MaxFileLen == 2
\* rand() is drawn from 0..MaxSmallRand and from the large samples below
MaxSmallRand == 16

(***************************************************************************)
(* Program constants.                                                      *)
(***************************************************************************)
\* HINTERNET NULL: the value the WinInet open calls return on failure
NULL == 0
\* wchar_t scheme[16]
kSchemeChars == 16
\* wchar_t host[256]
kHostChars == 256
\* wchar_t path[256]
kPathChars == 256
\* sizeof(wchar_t) with the Windows compilers the file is written for
kSizeofWchar == 2
\* the largest value rand() returns with the Microsoft C runtime
kRandMax == 32767
\* the width of each %08X conversion
kHexWidth == 8

\* L"---------------------------" : 27 '-' characters
kBoundaryPrefix == [i \in 1..27 |-> 45]
\* 27 + 16 + 1: the size in wchar_t of temp[], terminator included
kBoundaryLength == 27 + 16 + 1

\* "Content-Type: multipart/form-data; boundary="
kContentTypePrefix ==
  <<67, 111, 110, 116, 101, 110, 116, 45, 84, 121, 112, 101, 58, 32, 109,
    117, 108, 116, 105, 112, 97, 114, 116, 47, 102, 111, 114, 109, 45, 100,
    97, 116, 97, 59, 32, 98, 111, 117, 110, 100, 97, 114, 121, 61>>
\* "--"
kDashDash == <<45, 45>>
\* "\r\n"
kCRLF == <<13, 10>>
\* "Content-Disposition: form-data; name=\""
kDispositionName ==
  <<67, 111, 110, 116, 101, 110, 116, 45, 68, 105, 115, 112, 111, 115, 105,
    116, 105, 111, 110, 58, 32, 102, 111, 114, 109, 45, 100, 97, 116, 97,
    59, 32, 110, 97, 109, 101, 61, 34>>
\* "\"\r\n\r\n"
kQuoteCRLFCRLF == <<34, 13, 10, 13, 10>>
\* "Content-Disposition: form-data; "
kDisposition ==
  <<67, 111, 110, 116, 101, 110, 116, 45, 68, 105, 115, 112, 111, 115, 105,
    116, 105, 111, 110, 58, 32, 102, 111, 114, 109, 45, 100, 97, 116, 97,
    59, 32>>
\* "name=\""
kName == <<110, 97, 109, 101, 61, 34>>
\* "\"; "
kQuoteSemi == <<34, 59, 32>>
\* "filename=\""
kFilename == <<102, 105, 108, 101, 110, 97, 109, 101, 61, 34>>
\* "\"\r\n"
kQuoteCRLF == <<34, 13, 10>>
\* "Content-Type: application/octet-stream\r\n"
kOctetStream ==
  <<67, 111, 110, 116, 101, 110, 116, 45, 84, 121, 112, 101, 58, 32, 97,
    112, 112, 108, 105, 99, 97, 116, 105, 111, 110, 47, 111, 99, 116, 101,
    116, 45, 115, 116, 114, 101, 97, 109, 13, 10>>
\* "--\r\n"
kDashDashCRLF == <<45, 45, 13, 10>>
\* L"200"
k200 == <<50, 48, 48>>
\* L"http"
kHttp == <<104, 116, 116, 112>>
\* L"https"
kHttps == <<104, 116, 116, 112, 115>>

(***************************************************************************)
(* Text helpers.                                                           *)
(***************************************************************************)
\* s.c_str() read as a NUL-terminated string: the code units before the
\* first 0 (a wstring may hold embedded NULs; the C APIs stop at the first)
CStr(s) ==
  IF \E i \in 1..Len(s) : s[i] = 0
    THEN SubSeq(s, 1, (CHOOSE i \in 1..Len(s) :
                         s[i] = 0 /\ \A j \in 1..(i - 1) : s[j] # 0) - 1)
    ELSE s

\* the UTF-8 bytes of one UTF-16 code unit outside the surrogate range
\* (WideCharToMultiByte with CP_UTF8); the texts drawn below hold no
\* surrogates
Utf8Unit(c) ==
  IF c < 128 THEN <<c>>
  ELSE IF c < 2048 THEN <<192 + (c \div 64), 128 + (c % 64)>>
  ELSE <<224 + (c \div 4096), 128 + ((c \div 64) % 64), 128 + (c % 64)>>

RECURSIVE Utf8(_)
\* the UTF-8 bytes of a NUL-free sequence of code units
Utf8(w) == IF w = <<>> THEN <<>> ELSE Utf8Unit(Head(w)) \o Utf8(Tail(w))

\* HTTPUpload::WideToUTF8: the conversion reads wide.c_str() up to its NUL
\* (length -1), charcount counts the terminator, and string(buf) again stops
\* at the terminator
WideToUTF8(wide) ==
  IF Len(wide) = 0 THEN <<>>
  ELSE LET charcount == Len(Utf8(CStr(wide))) + 1
       IN  IF charcount = 0 THEN <<>> ELSE Utf8(CStr(wide))

\* a < b for wstrings: std::less<wstring>, lexicographic on code units
WLess(a, b) ==
  \E i \in 1..(Len(b)) :
     /\ \A j \in 1..(i - 1) : j <= Len(a) /\ a[j] = b[j]
     /\ \/ i = Len(a) + 1
        \/ i <= Len(a) /\ a[i] < b[i]

RECURSIVE MapOrderOf(_)
\* the keys of a set in map<wstring, wstring> iteration order (ascending)
MapOrderOf(keys) ==
  IF keys = {} THEN <<>>
  ELSE LET first == CHOOSE k \in keys : \A o \in keys \ {k} : WLess(k, o)
       IN  <<first>> \o MapOrderOf(keys \ {first})

\* parameters.begin() .. parameters.end()
MapOrder(parameters) == MapOrderOf(DOMAIN parameters)

(***************************************************************************)
(* HTTPUpload::GenerateMultipartBoundary and GenerateRequestHeader.        *)
(***************************************************************************)
\* one uppercase hexadecimal digit, as %X prints it
HexDigit(d) == IF d < 10 THEN 48 + d ELSE 65 + (d - 10)

RECURSIVE HexDigits(_)
\* the digits of %X for an unsigned value: no leading zeros, "0" for 0
HexDigits(n) ==
  IF n < 16 THEN <<HexDigit(n)>>
  ELSE HexDigits(n \div 16) \o <<HexDigit(n % 16)>>

\* (a faulty variant: %X, the digits without the padding to 8)
FormatHexUnpadded(n) == HexDigits(n)
\* %08X: the digits, left-padded with '0' to at least 8 characters
FormatHex08(n) ==
  LET d == HexDigits(n)
  IN  IF Len(d) >= kHexWidth THEN d
      ELSE [i \in 1..(kHexWidth - Len(d)) |-> 48] \o d

\* swprintf_s(temp, kBoundaryLength, L"%s%08X%08X", kBoundaryPrefix, r0, r1);
\* return wstring(temp); swprintf_s leaves temp empty when the text and its
\* terminator do not fit kBoundaryLength characters
GenerateMultipartBoundary(r0, r1) ==
  LET text == kBoundaryPrefix \o FormatHex08(r0) \o FormatHex08(r1)
  IN  IF Len(text) + 1 <= kBoundaryLength THEN text ELSE <<>>

\* header = L"Content-Type: multipart/form-data; boundary=" + boundary
GenerateRequestHeader(b) == kContentTypePrefix \o b

(***************************************************************************)
(* HTTPUpload::GetFileContents and GenerateRequestBody.                    *)
(* A disk is a function from the NUL-free paths of the files that exist to *)
(* their bytes.                                                            *)
(***************************************************************************)
\* file.open(filename.c_str(), ios::binary); file.is_open()
FileOpens(dsk, filename) == CStr(filename) \in DOMAIN dsk

\* what *contents holds when GetFileContents returns
GetFileContents(dsk, filename) ==
  IF FileOpens(dsk, filename) THEN dsk[CStr(filename)] ELSE <<>>

\* file.read(&((*contents)[0]), length) with length = 0 indexes an empty
\* vector: undefined behaviour (the checked iterators of the Microsoft
\* library stop the process there; an unchecked build reads nothing)
ReadIndexesEmptyVector(dsk, filename) ==
  FileOpens(dsk, filename) /\ Len(dsk[CStr(filename)]) = 0

\* one form-data part per parameter (the two append calls of the loop body)
ParameterPart(boundary_str, name, value) ==
  kDashDash \o boundary_str \o kCRLF
  \o kDispositionName \o WideToUTF8(name) \o kQuoteCRLFCRLF
  \o WideToUTF8(value) \o kCRLF

RECURSIVE ParameterParts(_, _, _)
\* the loop over the parameters, pos = order[1], order[2], ...
ParameterParts(boundary_str, parameters, order) ==
  IF order = <<>> THEN <<>>
  ELSE ParameterPart(boundary_str, Head(order), parameters[Head(order)])
       \o ParameterParts(boundary_str, parameters, Tail(order))

\* the appends after the loop: the file part and the closing delimiter
\* (a faulty variant: the closing delimiter without its trailing "--")
FilePartUnclosed(boundary_str, file_part_name_utf8, filename_utf8, contents) ==
  kDashDash \o boundary_str \o kCRLF
  \o kDisposition \o kName \o file_part_name_utf8 \o kQuoteSemi
  \o kFilename \o filename_utf8 \o kQuoteCRLF
  \o kOctetStream
  \o kCRLF
  \o contents
  \o kCRLF
  \o kDashDash \o boundary_str \o kCRLF
FilePart(boundary_str, file_part_name_utf8, filename_utf8, contents) ==
  kDashDash \o boundary_str \o kCRLF
  \o kDisposition \o kName \o file_part_name_utf8 \o kQuoteSemi
  \o kFilename \o filename_utf8 \o kQuoteCRLF
  \o kOctetStream
  \o kCRLF
  \o contents
  \o kCRLF
  \o kDashDash \o boundary_str \o kDashDashCRLF

\* HTTPUpload::GenerateRequestBody: its return value and *request_body when it
\* returns; prior is *request_body when it is called
GenerateRequestBody(dsk, parameters, upload_file_, file_part_name_, boundary_, prior) ==
  LET contents == GetFileContents(dsk, upload_file_)
      boundary_str == WideToUTF8(boundary_)
      parts == ParameterParts(boundary_str, parameters, MapOrder(parameters))
      filename_utf8 == WideToUTF8(upload_file_)
      file_part_name_utf8 == WideToUTF8(file_part_name_)
  IN  IF contents = <<>> THEN [ok |-> FALSE, body |-> prior]
      ELSE IF boundary_str = <<>> THEN [ok |-> FALSE, body |-> prior]
      ELSE IF filename_utf8 = <<>> THEN [ok |-> FALSE, body |-> parts]
      ELSE IF file_part_name_utf8 = <<>> THEN [ok |-> FALSE, body |-> parts]
      ELSE [ok |-> TRUE,
            body |-> parts \o FilePart(boundary_str, file_part_name_utf8,
                                       filename_utf8, contents)]


(***************************************************************************)
(* HTTPUpload::CheckParameters, and the tests SendRequest makes.           *)
(***************************************************************************)
\* (a faulty variant: the test for the double quote left out)
CheckParametersNoQuote(parameters) ==
  \A str \in DOMAIN parameters :
     /\ Len(str) # 0
     /\ \A i \in 1..Len(str) : ~(str[i] < 32 \/ str[i] > 127)
\* false as soon as a parameter name is empty or holds a character c with
\* c < 32 || c == '"' || c > 127
CheckParameters(parameters) ==
  \A str \in DOMAIN parameters :
     /\ Len(str) # 0
     /\ \A i \in 1..Len(str) : ~(str[i] < 32 \/ str[i] = 34 \/ str[i] > 127)

\* wcscmp(scheme, L"https") != 0 && wcscmp(scheme, L"http") != 0
SchemeRejected(scheme_) == scheme_ # kHttps /\ scheme_ # kHttp

\* bool secure: wcscmp(scheme, L"https") == 0
SchemeSecure(scheme_) == scheme_ = kHttps

\* INTERNET_FLAG_SECURE (wininet.h)
INTERNET_FLAG_SECURE == 8388608
\* DWORD http_open_flags = secure ? INTERNET_FLAG_SECURE : 0
HttpOpenFlags(secure_) == IF secure_ THEN INTERNET_FLAG_SECURE ELSE 0

\* (a faulty variant: every 2xx status is taken for success)
StatusIs2xx(http_status_) == Len(http_status_) = 3 /\ http_status_[1] = 50
\* wcscmp(http_status, L"200") == 0
StatusIs200(http_status_) == http_status_ = k200

(***************************************************************************)
(* HTTPUpload::AutoInternetHandle.                                         *)
(***************************************************************************)
\* a call of the HTTP client library (WinInet), as the call log records it:
\* the function, the argument the properties read, and what it returned
\* (a handle, or a BOOL as 1 / 0)
Call(op, arg, ret) == [op |-> op, arg |-> arg, ret |-> ret]

\* (a faulty variant: the destructor without its test of handle_)
DestructorUnchecked(handle_) == <<Call("InternetCloseHandle", <<handle_>>, 1)>>
\* ~AutoInternetHandle(): if (handle_) InternetCloseHandle(handle_);
Destructor(handle_) ==
  IF handle_ # NULL THEN <<Call("InternetCloseHandle", <<handle_>>, 1)>>
  ELSE <<>>

RECURSIVE Unwind(_)
\* leaving SendRequest: the AutoInternetHandle objects constructed so far are
\* destroyed in the reverse order of their construction
Unwind(scope_) ==
  IF scope_ = <<>> THEN <<>>
  ELSE Destructor(scope_[Len(scope_)])
       \o Unwind(SubSeq(scope_, 1, Len(scope_) - 1))

\* the distinct non-NULL handles the three open calls return when they succeed
Handle == [InternetOpen |-> 1, InternetConnect |-> 2, HttpOpenRequest |-> 3]

\* BOOL as the log records it
Bool(b) == IF b THEN 1 ELSE 0


(***************************************************************************)
(* The state: the arguments and the environment of one call, the locals of *)
(* SendRequest, and the log of the calls made to the HTTP client library.  *)
(***************************************************************************)
VARIABLES
  url,                  \* what InternetCrackUrl finds in the url argument
  parameters,           \* map<wstring, wstring>: a function on its keys
  upload_file,          \* wstring
  file_part_name,       \* wstring
  disk,                 \* the files that exist, by path
  pc,                   \* the statement SendRequest is at
  scheme,               \* wchar_t scheme[16] as wcscmp reads it
  smashed,              \* InternetCrackUrl wrote past host[] or path[]
  secure,
  scope,                \* the AutoInternetHandle objects constructed: handle_
  rand0, rand1,         \* what the two calls of rand() returned
  boundary,
  content_type_header,
  request_body,
  body_ok,              \* what GenerateRequestBody returned ("none": not called)
  http_status,
  calls,                \* the calls of the HTTP client library, in order
  result                \* what SendRequest returned ("none": it has not)

vars ==
  <<url, parameters, upload_file, file_part_name, disk, pc, scheme, smashed,
    secure, scope, rand0, rand1, boundary, content_type_header, request_body,
    body_ok, http_status, calls, result>>

args == <<url, parameters, upload_file, file_part_name, disk>>

(***************************************************************************)
(* The inputs the model draws from.                                        *)
(***************************************************************************)
\* the maps with at most MaxParams keys
ParamMaps(keys, values) ==
  UNION {[ks -> values] : ks \in {s \in SUBSET keys : Cardinality(s) <= MaxParams}}

RECURSIVE SeqsUpTo(_, _)
\* the sequences over a set with at most n elements
SeqsUpTo(set, n) ==
  IF n = 0 THEN {<<>>}
  ELSE LET shorter == SeqsUpTo(set, n - 1)
       IN  shorter \cup {Append(q, x) : q \in {t \in shorter : Len(t) = n - 1}, x \in set}

\* parameter names around the limits of CheckParameters: "", 31, ' ', '"',
\* 127, 128, "A\""
UploadKeys == {<<>>, <<31>>, <<32>>, <<34>>, <<127>>, <<128>>, <<65, 34>>}
\* parameter values: "", "b"
UploadValues == {<<>>, <<98>>}

\* the paths Upload is given: "", "d", "d\0x" (an embedded NUL)
UploadFiles == {<<>>, <<100>>, <<100, 0, 120>>}
\* the bytes files are made of: NUL, 'D'
FileBytes == {0, 68}
\* a disk with no file
NoFile == <<>>
\* a disk with the one file "d"
OneFile(contents) == [p \in {<<100>>} |-> contents]
\* the disks of the body builder: no file, or "d" with up to MaxFileLen bytes
Disks == {NoFile} \cup {OneFile(c) : c \in SeqsUpTo(FileBytes, MaxFileLen)}
\* the disks of Upload: no file, "d" empty, "d" holding "D\0"
UploadDisks == {NoFile, OneFile(<<>>), OneFile(<<68, 0>>)}
\* the part names: "", "f", "\0f"
PartNames == {<<>>, <<102>>, <<0, 102>>}

\* L"ftp"
kFtp == <<102, 116, 112>>
\* L"HTTPS"
kHTTPS == <<72, 84, 84, 80, 83>>
\* what a url argument holds: whether it is well formed, its scheme, and the
\* lengths in characters of its host name and of its path
Urls ==
  {[wellFormed |-> FALSE, scheme |-> <<>>, hostLen |-> 0, pathLen |-> 0]}
  \cup {[wellFormed |-> TRUE, scheme |-> sc, hostLen |-> 9, pathLen |-> 1] :
          sc \in {kHttp, kHttps, kFtp, kHTTPS}}
  \cup {[wellFormed |-> TRUE, scheme |-> kHttps, hostLen |-> 300, pathLen |-> 1],
        [wellFormed |-> TRUE, scheme |-> kFtp, hostLen |-> 9, pathLen |-> 300],
        [wellFormed |-> TRUE, scheme |-> kHttp, hostLen |-> 9, pathLen |-> 600]}

\* the values rand() returns in a call of Upload
UploadRands == {10, kRandMax}
\* the status codes a server answers with: "200", "204", "404", "500"
StatusCodes == {k200, <<50, 48, 52>>, <<52, 48, 52>>, <<53, 48, 48>>}

(***************************************************************************)
(* InternetCrackUrl as SendRequest calls it.                               *)
(***************************************************************************)
\* components.dwHostNameLength = sizeof(host): the size InternetCrackUrl is
\* told, in characters, is the size of the buffer in bytes
DeclaredLength(chars) == chars * kSizeofWchar

\* InternetCrackUrl fails on a malformed url and when a component, with its
\* terminator, does not fit the length it was told
CrackSucceeds(u) ==
  /\ u.wellFormed
  /\ Len(u.scheme) + 1 <= DeclaredLength(kSchemeChars)
  /\ u.hostLen + 1 <= DeclaredLength(kHostChars)
  /\ u.pathLen + 1 <= DeclaredLength(kPathChars)

\* it then copies each component, with its terminator, into its buffer: past
\* the end of the buffer when the component is longer than the buffer
CrackOverflows(u) ==
  \/ Len(u.scheme) + 1 > kSchemeChars
  \/ u.hostLen + 1 > kHostChars
  \/ u.pathLen + 1 > kPathChars

\* what wcscmp can read in scheme[] after an overflow (undefined behaviour):
\* the scheme of the url, or what the overflowing copy left there
ClobberedSchemes(u) == {u.scheme, kHttp, kHttps, <<97, 97>>}


(***************************************************************************)
(* HTTPUpload::SendRequest (Upload), one action per statement that calls   *)
(* out of it.                                                              *)
(***************************************************************************)
\* the state when SendRequest is called
Init ==
  /\ url \in Urls
  /\ parameters \in ParamMaps(UploadKeys, UploadValues)
  /\ upload_file \in UploadFiles
  /\ file_part_name \in PartNames
  /\ disk \in UploadDisks
  /\ pc = "CheckParameters"
  /\ scheme = <<>>
  /\ smashed = FALSE
  /\ secure = FALSE
  /\ scope = <<>>
  /\ rand0 = 0
  /\ rand1 = 0
  /\ boundary = <<>>
  /\ content_type_header = <<>>
  /\ request_body = <<>>
  /\ body_ok = "none"
  /\ http_status = <<>>
  /\ calls = <<>>
  /\ result = FALSE

\* a return statement: the calls made by the returning statement are logged,
\* the handle objects in scope are destroyed, and the caller gets res.  After
\* a write past a stack buffer the return itself is undefined behaviour: the
\* stack check of the build may stop the process instead
Return(res, made, scope_, smashed_) ==
  /\ calls' = calls \o made \o Unwind(scope_)
  /\ scope' = <<>>
  /\ \E exit \in (IF smashed_ THEN {"done", "crashed"} ELSE {"done"}) :
        /\ pc' = exit
        /\ result' = (exit = "done" /\ res)

\* if (!CheckParameters(parameters)) return false;
CheckParametersStep ==
  /\ pc = "CheckParameters"
  /\ IF ~CheckParameters(parameters)
       THEN /\ Return(FALSE, <<>>, scope, smashed)
            /\ UNCHANGED <<args, scheme, smashed, secure, rand0, rand1, boundary,
                           content_type_header, request_body, body_ok, http_status>>
       ELSE /\ pc' = "InternetCrackUrl"
            /\ UNCHANGED <<args, scheme, smashed, secure, scope, rand0, rand1,
                           boundary, content_type_header, request_body, body_ok,
                           http_status, calls, result>>

\* the tests of scheme[] after InternetCrackUrl succeeded
SchemeDispatch(scheme_, smashed_) ==
  /\ scheme' = scheme_
  /\ smashed' = smashed_
  /\ IF SchemeRejected(scheme_)
       THEN /\ Return(FALSE, <<>>, scope, smashed_)
            /\ UNCHANGED secure
       ELSE /\ secure' = SchemeSecure(scheme_)
            /\ pc' = "InternetOpen"
            /\ UNCHANGED <<scope, calls, result>>

\* if (!InternetCrackUrl(...)) return false; and the scheme tests
InternetCrackUrlStep ==
  /\ pc = "InternetCrackUrl"
  /\ UNCHANGED <<args, rand0, rand1, boundary, content_type_header,
                 request_body, body_ok, http_status>>
  /\ \/ /\ ~CrackSucceeds(url)
        /\ Return(FALSE, <<>>, scope, smashed)
        /\ UNCHANGED <<scheme, smashed, secure>>
     \/ /\ CrackSucceeds(url)
        /\ ~CrackOverflows(url)
        /\ SchemeDispatch(url.scheme, FALSE)
     \/ /\ CrackSucceeds(url)
        /\ CrackOverflows(url)
        /\ \E clobbered \in ClobberedSchemes(url) : SchemeDispatch(clobbered, TRUE)

\* AutoInternetHandle internet(InternetOpen(...)); if (!internet.get()) return false;
InternetOpenStep ==
  /\ pc = "InternetOpen"
  /\ UNCHANGED <<args, scheme, smashed, secure, rand0, rand1, boundary,
                 content_type_header, request_body, body_ok, http_status>>
  /\ \E h \in {NULL, Handle.InternetOpen} :
        LET made == <<Call("InternetOpen", <<>>, h)>>
        IN  IF h = NULL
              THEN Return(FALSE, made, scope \o <<h>>, smashed)
              ELSE /\ scope' = scope \o <<h>>
                   /\ calls' = calls \o made
                   /\ pc' = "InternetConnect"
                   /\ UNCHANGED result

\* (a faulty variant: the test of connection.get() left out)
InternetConnectStepUnchecked ==
  /\ pc = "InternetConnect"
  /\ UNCHANGED <<args, scheme, smashed, secure, rand0, rand1, boundary,
                 content_type_header, request_body, body_ok, http_status>>
  /\ \E h \in {NULL, Handle.InternetConnect} :
        /\ scope' = scope \o <<h>>
        /\ calls' = calls \o <<Call("InternetConnect", <<scope[1]>>, h)>>
        /\ pc' = "HttpOpenRequest"
        /\ UNCHANGED result
\* AutoInternetHandle connection(InternetConnect(internet.get(), ...));
\* if (!connection.get()) return false;
InternetConnectStep ==
  /\ pc = "InternetConnect"
  /\ UNCHANGED <<args, scheme, smashed, secure, rand0, rand1, boundary,
                 content_type_header, request_body, body_ok, http_status>>
  /\ \E h \in {NULL, Handle.InternetConnect} :
        LET made == <<Call("InternetConnect", <<scope[1]>>, h)>>
        IN  IF h = NULL
              THEN Return(FALSE, made, scope \o <<h>>, smashed)
              ELSE /\ scope' = scope \o <<h>>
                   /\ calls' = calls \o made
                   /\ pc' = "HttpOpenRequest"
                   /\ UNCHANGED result

\* AutoInternetHandle request(HttpOpenRequest(connection.get(), L"POST", path,
\* ..., http_open_flags, NULL)); if (!request.get()) return false;
HttpOpenRequestStep ==
  /\ pc = "HttpOpenRequest"
  /\ UNCHANGED <<args, scheme, smashed, secure, rand0, rand1, boundary,
                 content_type_header, request_body, body_ok, http_status>>
  /\ \E h \in {NULL, Handle.HttpOpenRequest} :
        LET made == <<Call("HttpOpenRequest", <<scope[2], HttpOpenFlags(secure)>>, h)>>
        IN  IF h = NULL
              THEN Return(FALSE, made, scope \o <<h>>, smashed)
              ELSE /\ scope' = scope \o <<h>>
                   /\ calls' = calls \o made
                   /\ pc' = "HttpAddRequestHeaders"
                   /\ UNCHANGED result

\* (a faulty variant: return false when HttpAddRequestHeaders fails)
HttpAddRequestHeadersStepChecked ==
  /\ pc = "HttpAddRequestHeaders"
  /\ UNCHANGED <<args, scheme, smashed, secure, request_body, body_ok, http_status>>
  /\ \E a \in UploadRands, b \in UploadRands, ok \in BOOLEAN :
        LET made == <<Call("HttpAddRequestHeaders",
                           GenerateRequestHeader(GenerateMultipartBoundary(a, b)),
                           Bool(ok))>>
        IN  /\ rand0' = a
            /\ rand1' = b
            /\ boundary' = GenerateMultipartBoundary(a, b)
            /\ content_type_header' = GenerateRequestHeader(boundary')
            /\ IF ~ok
                 THEN Return(FALSE, made, scope, smashed)
                 ELSE /\ calls' = calls \o made
                      /\ pc' = "GenerateRequestBody"
                      /\ UNCHANGED <<scope, result>>
\* wstring boundary = GenerateMultipartBoundary();
\* wstring content_type_header = GenerateRequestHeader(boundary);
\* HttpAddRequestHeaders(request.get(), content_type_header.c_str(), -1, ...);
\* what HttpAddRequestHeaders returns is not read
HttpAddRequestHeadersStep ==
  /\ pc = "HttpAddRequestHeaders"
  /\ UNCHANGED <<args, scheme, smashed, secure, scope, request_body, body_ok,
                 http_status, result>>
  /\ \E a \in UploadRands, b \in UploadRands, ok \in BOOLEAN :
        /\ rand0' = a
        /\ rand1' = b
        /\ boundary' = GenerateMultipartBoundary(a, b)
        /\ content_type_header' = GenerateRequestHeader(boundary')
        /\ calls' = calls \o <<Call("HttpAddRequestHeaders",
                                    content_type_header', Bool(ok))>>
        /\ pc' = "GenerateRequestBody"

\* string request_body; GenerateRequestBody(parameters, upload_file,
\* file_part_name, boundary, &request_body); what it returns is not read
GenerateRequestBodyStep ==
  /\ pc = "GenerateRequestBody"
  /\ UNCHANGED <<args, scheme, smashed, secure, scope, rand0, rand1, boundary,
                 content_type_header, http_status, calls, result>>
  /\ \/ LET r == GenerateRequestBody(disk, parameters, upload_file,
                                     file_part_name, boundary, <<>>)
        IN  /\ request_body' = r.body
            /\ body_ok' = IF r.ok THEN "true" ELSE "false"
            /\ pc' = "HttpSendRequest"
     \/ /\ ReadIndexesEmptyVector(disk, upload_file)
        /\ pc' = "crashed"
        /\ UNCHANGED <<request_body, body_ok>>

\* if (!HttpSendRequest(request.get(), NULL, 0, body, size)) return false;
HttpSendRequestStep ==
  /\ pc = "HttpSendRequest"
  /\ UNCHANGED <<args, scheme, smashed, secure, rand0, rand1, boundary,
                 content_type_header, request_body, body_ok, http_status>>
  /\ \E ok \in BOOLEAN :
        LET made == <<Call("HttpSendRequest", request_body, Bool(ok))>>
        IN  IF ~ok
              THEN Return(FALSE, made, scope, smashed)
              ELSE /\ calls' = calls \o made
                   /\ pc' = "HttpQueryInfo"
                   /\ UNCHANGED <<scope, result>>

\* if (!HttpQueryInfo(request.get(), HTTP_QUERY_STATUS_CODE, &http_status,
\* &http_status_size, 0)) return false;
\* return (wcscmp(http_status, L"200") == 0);
HttpQueryInfoStep ==
  /\ pc = "HttpQueryInfo"
  /\ UNCHANGED <<args, scheme, smashed, secure, rand0, rand1, boundary,
                 content_type_header, request_body, body_ok>>
  /\ \/ /\ Return(FALSE, <<Call("HttpQueryInfo", <<>>, 0)>>, scope, smashed)
        /\ UNCHANGED http_status
     \/ \E status \in StatusCodes :
          /\ http_status' = status
          /\ Return(StatusIs200(status), <<Call("HttpQueryInfo", status, 1)>>,
                    scope, smashed)

Next ==
  \/ CheckParametersStep
  \/ InternetCrackUrlStep
  \/ InternetOpenStep
  \/ InternetConnectStep
  \/ HttpOpenRequestStep
  \/ HttpAddRequestHeadersStep
  \/ GenerateRequestBodyStep
  \/ HttpSendRequestStep
  \/ HttpQueryInfoStep

Spec == Init /\ [][Next]_vars


(***************************************************************************)
(* GenerateRequestBody called on its own, on every input of a bounded set. *)
(***************************************************************************)
\* parameter names of the body builder (names CheckParameters accepts):
\* "A", "B", "AB", "a", DEL
BodyKeys == {<<65>>, <<66>>, <<65, 66>>, <<97>>, <<127>>}
\* parameter values: "", the euro sign and "b", "b\0c" (an embedded NUL)
BodyValues == {<<>>, <<8364, 98>>, <<98, 0, 99>>}
\* boundaries: "B", "", and a boundary GenerateMultipartBoundary returns
BodyBoundaries == {<<66>>, <<>>, GenerateMultipartBoundary(kRandMax, 10)}
\* what *request_body holds when the builder is called: "", "X"
PriorBodies == {<<>>, <<88>>}

InitBody ==
  /\ url = [wellFormed |-> FALSE, scheme |-> <<>>, hostLen |-> 0, pathLen |-> 0]
  /\ parameters \in ParamMaps(BodyKeys, BodyValues)
  /\ upload_file \in UploadFiles
  /\ file_part_name \in PartNames
  /\ disk \in Disks
  /\ boundary \in BodyBoundaries
  /\ request_body \in PriorBodies
  /\ pc = "GenerateRequestBodyCall"
  /\ scheme = <<>>
  /\ smashed = FALSE
  /\ secure = FALSE
  /\ scope = <<>>
  /\ rand0 = 0
  /\ rand1 = 0
  /\ content_type_header = <<>>
  /\ body_ok = "none"
  /\ http_status = <<>>
  /\ calls = <<>>
  /\ result = FALSE

\* a call of GenerateRequestBody that returns
GenerateRequestBodyCall ==
  /\ pc = "GenerateRequestBodyCall"
  /\ LET r == GenerateRequestBody(disk, parameters, upload_file,
                                  file_part_name, boundary, request_body)
     IN  /\ request_body' = r.body
         /\ body_ok' = IF r.ok THEN "true" ELSE "false"
  /\ pc' = "GenerateRequestBodyReturned"
  /\ UNCHANGED <<args, scheme, smashed, secure, scope, rand0, rand1, boundary,
                 content_type_header, http_status, calls, result>>

\* a call of GenerateRequestBody on an empty file, in a build that stops at
\* the index into the empty vector
GenerateRequestBodyCrash ==
  /\ pc = "GenerateRequestBodyCall"
  /\ ReadIndexesEmptyVector(disk, upload_file)
  /\ pc' = "crashed"
  /\ UNCHANGED <<args, scheme, smashed, secure, scope, rand0, rand1, boundary,
                 content_type_header, request_body, body_ok, http_status, calls,
                 result>>

NextBody == GenerateRequestBodyCall \/ GenerateRequestBodyCrash

SpecBody == InitBody /\ [][NextBody]_vars

(***************************************************************************)
(* GenerateMultipartBoundary and GenerateRequestHeader called on their     *)
(* own, on the values rand() returns.                                      *)
(***************************************************************************)
\* the values of rand(): the small ones, and 255, 256, 4095, 4096, RAND_MAX
Rands == (0..MaxSmallRand) \cup {255, 256, 4095, 4096, kRandMax}

InitBoundary ==
  /\ url = [wellFormed |-> FALSE, scheme |-> <<>>, hostLen |-> 0, pathLen |-> 0]
  /\ parameters = <<>>
  /\ upload_file = <<>>
  /\ file_part_name = <<>>
  /\ disk = NoFile
  /\ rand0 \in Rands
  /\ rand1 \in Rands
  /\ pc = "GenerateMultipartBoundaryCall"
  /\ scheme = <<>>
  /\ smashed = FALSE
  /\ secure = FALSE
  /\ scope = <<>>
  /\ boundary = <<>>
  /\ content_type_header = <<>>
  /\ request_body = <<>>
  /\ body_ok = "none"
  /\ http_status = <<>>
  /\ calls = <<>>
  /\ result = FALSE

\* boundary = GenerateMultipartBoundary(), with rand() returning rand0 and
\* then rand1; content_type_header = GenerateRequestHeader(boundary)
GenerateMultipartBoundaryCall ==
  /\ pc = "GenerateMultipartBoundaryCall"
  /\ boundary' = GenerateMultipartBoundary(rand0, rand1)
  /\ content_type_header' = GenerateRequestHeader(boundary')
  /\ pc' = "GenerateMultipartBoundaryReturned"
  /\ UNCHANGED <<args, scheme, smashed, secure, scope, rand0, rand1,
                 request_body, body_ok, http_status, calls, result>>

NextBoundary == GenerateMultipartBoundaryCall

SpecBoundary == InitBoundary /\ [][NextBoundary]_vars


(***************************************************************************)
(* Reading the call log.                                                   *)
(***************************************************************************)
\* the places in the log of the calls of one function
CallsOf(op) == {i \in 1..Len(calls) : calls[i].op = op}
Called(op) == CallsOf(op) # {}
\* the function was called and the call succeeded (non-NULL handle, TRUE)
Succeeded(op) == \E i \in CallsOf(op) : calls[i].ret # 0
\* the function was called and the call failed (NULL handle, FALSE)
Failed(op) == \E i \in CallsOf(op) : calls[i].ret = 0

\* the capabilities of the HTTP client, in the order of the call sequence
Capabilities ==
  <<"InternetOpen", "InternetConnect", "HttpOpenRequest",
    "HttpAddRequestHeaders", "HttpSendRequest", "HttpQueryInfo">>
\* the three calls that open a network resource
OpenCalls == {"InternetOpen", "InternetConnect", "HttpOpenRequest"}
\* the steps whose failure ends the call
FallibleSteps == OpenCalls \cup {"HttpSendRequest", "HttpQueryInfo"}

Returned == pc = "done"

(***************************************************************************)
(* C1                                                                      *)
(***************************************************************************)
\* a key that is empty or holds a character below 32, above 127, or '"'
InvalidKey(k) ==
  \/ k = <<>>
  \/ \E i \in 1..Len(k) : k[i] < 32 \/ k[i] > 127 \/ k[i] = 34

\* C1: when some parameter name is empty or holds a character below 32, above
\* 127 or the double quote, the first step of Upload ends the call with false,
\* and the log of HTTP-client calls stays empty.
C1_InvalidNamesFailWithoutIO ==
  ((\E k \in DOMAIN parameters : InvalidKey(k)) /\ pc # "CheckParameters")
    => (Returned /\ result = FALSE /\ calls = <<>>)

\* a call with the name A" beside a valid one, a url that would have been
\* accepted and a readable file has returned false
C1_Witness ==
  /\ Returned
  /\ result = FALSE
  /\ <<65, 34>> \in DOMAIN parameters
  /\ <<32>> \in DOMAIN parameters
  /\ url.wellFormed /\ url.scheme = kHttp /\ url.hostLen < kHostChars
  /\ upload_file = <<100>> /\ disk = OneFile(<<68, 0>>)

(***************************************************************************)
(* C2, C3                                                                  *)
(***************************************************************************)
\* the file at the path is missing or has no bytes
EmptyOrMissingFile ==
  \/ CStr(upload_file) \notin DOMAIN disk
  \/ disk[CStr(upload_file)] = <<>>

\* C2: a call of Upload on a zero-length or nonexistent file returns false, and
\* no session, connection or request was opened in it (stated for the calls in
\* which InternetCrackUrl stayed within its buffers).
C2_EmptyFileFailsBeforeNetwork ==
  (Returned /\ EmptyOrMissingFile /\ ~smashed)
    => (result = FALSE /\ \A op \in OpenCalls : ~Succeeded(op))

\* C3: when GenerateRequestBody has returned false, HttpSendRequest is not
\* called, and the call of Upload returns false (stated for the calls in which
\* InternetCrackUrl stayed within its buffers).
C3_BodyFailureAborts ==
  (body_ok = "false" /\ ~smashed)
    => (~Called("HttpSendRequest") /\ (Returned => result = FALSE))

(***************************************************************************)
(* C4                                                                      *)
(***************************************************************************)
\* C4: when Upload has returned and its HttpSendRequest succeeded, it returned
\* true exactly if HttpQueryInfo succeeded and reported "200".
C4_StatusGating ==
  (Returned /\ Succeeded("HttpSendRequest"))
    => (result = (\E i \in CallsOf("HttpQueryInfo") :
                     calls[i].ret # 0 /\ calls[i].arg = <<50, 48, 48>>))

\* a call has returned true after a status of 200
C4_Witness ==
  /\ Returned
  /\ ~smashed
  /\ result = TRUE
  /\ body_ok = "true"
  /\ \E i \in CallsOf("HttpQueryInfo") : calls[i].ret # 0 /\ calls[i].arg = k200

(***************************************************************************)
(* C5                                                                      *)
(***************************************************************************)
\* the handles the open calls returned
Acquired == {calls[i].ret : i \in {j \in 1..Len(calls) : calls[j].op \in OpenCalls}} \ {NULL}
\* the number of times a handle was passed to InternetCloseHandle
Releases(h) ==
  Cardinality({i \in CallsOf("InternetCloseHandle") : calls[i].arg = <<h>>})

\* C5: when Upload has returned, each handle it acquired was released exactly
\* once, and nothing else was released.
C5_ResourceCleanup ==
  Returned =>
    /\ \A h \in Acquired : Releases(h) = 1
    /\ \A i \in CallsOf("InternetCloseHandle") :
          \E h \in Acquired : calls[i].arg = <<h>>

\* HttpOpenRequest failed after a session and a connection were opened, and
\* the call returned with both released
C5_Witness ==
  /\ Returned
  /\ ~smashed
  /\ Failed("HttpOpenRequest")
  /\ Cardinality(Acquired) = 2
  /\ Cardinality(CallsOf("InternetCloseHandle")) = 2

(***************************************************************************)
(* C6                                                                      *)
(***************************************************************************)
\* C6: when Upload has returned: if the url does not parse or its scheme is
\* neither http nor https, it returned false and opened nothing; if the url
\* parses with the scheme http or https, the call went on to InternetOpen;
\* and HttpOpenRequest was passed INTERNET_FLAG_SECURE exactly for https.
C6_SchemeRestriction ==
  Returned =>
    /\ (~CrackSucceeds(url) \/ url.scheme \notin {kHttp, kHttps})
         => (result = FALSE /\ \A op \in OpenCalls : ~Called(op))
    /\ (CrackSucceeds(url) /\ url.scheme \in {kHttp, kHttps}
          /\ ~(\E k \in DOMAIN parameters : InvalidKey(k)))
         => Called("InternetOpen")
    /\ \A i \in CallsOf("HttpOpenRequest") :
          (calls[i].arg[2] = INTERNET_FLAG_SECURE) = (url.scheme = kHttps)


(***************************************************************************)
(* C7                                                                      *)
(***************************************************************************)
RECURSIVE Utf8Whole(_)
\* the UTF-8 bytes of every code unit of a text, a NUL included
Utf8Whole(w) ==
  IF w = <<>> THEN <<>> ELSE Utf8Unit(Head(w)) \o Utf8Whole(Tail(w))

\* the keys of a map as the one ascending sequence without repetition
Ascending(m) ==
  CHOOSE q \in [1..Cardinality(DOMAIN m) -> DOMAIN m] :
     \A i \in DOMAIN q : \A j \in DOMAIN q : i < j => WLess(q[i], q[j])

RECURSIVE Flatten(_)
Flatten(qq) == IF qq = <<>> THEN <<>> ELSE Head(qq) \o Flatten(Tail(qq))

\* the body the framing rule asks for, each text rendered by enc: the
\* parameter parts in ascending key order, the file part, the closing delimiter
FramedBody(enc(_), m, path, part, b, bytes) ==
  LET q == Ascending(m)
      dashB == <<45, 45>> \o enc(b)
  IN  Flatten([i \in DOMAIN q |->
                 dashB \o <<13, 10>> \o kDispositionName \o enc(q[i])
                 \o <<34, 13, 10, 13, 10>> \o enc(m[q[i]]) \o <<13, 10>>])
      \o dashB \o <<13, 10>>
      \o kDispositionName \o enc(part) \o <<34, 59, 32>> \o kFilename
      \o enc(path) \o <<34, 13, 10>>
      \o kOctetStream \o <<13, 10>>
      \o bytes \o <<13, 10>>
      \o dashB \o <<45, 45, 13, 10>>

\* the text before the first NUL, in UTF-8
Utf8CStr(w) == Utf8(CStr(w))

\* the bytes of the file the path names
FileBytesAt == IF CStr(upload_file) \in DOMAIN disk THEN disk[CStr(upload_file)] ELSE <<>>

\* C7: for non-empty file contents, path, part name and boundary the builder
\* succeeds and the output is the framed body of the texts as given, whatever
\* the output held before.
C7_BodyFramingAsStated ==
  (pc = "GenerateRequestBodyReturned" /\ FileBytesAt # <<>> /\ upload_file # <<>>
     /\ file_part_name # <<>> /\ boundary # <<>>)
    => /\ body_ok = "true"
       /\ request_body = FramedBody(Utf8Whole, parameters, upload_file,
                                    file_part_name, boundary, FileBytesAt)

\* C7, amended: for non-empty file contents, and a part name and a boundary
\* that are non-empty before their first NUL, the builder succeeds and the
\* output is the framed body of the texts, each rendered up to its first NUL,
\* whatever the output held before.
C7_BodyFraming ==
  (pc = "GenerateRequestBodyReturned" /\ FileBytesAt # <<>>
     /\ CStr(file_part_name) # <<>> /\ CStr(boundary) # <<>>)
    => /\ body_ok = "true"
       /\ request_body = FramedBody(Utf8CStr, parameters, upload_file,
                                    file_part_name, boundary, FileBytesAt)

\* the builder has succeeded on two parameters, one with an empty value and
\* one with a non-ASCII value, over an output that held "X"
C7_Witness ==
  /\ pc = "GenerateRequestBodyReturned"
  /\ body_ok = "true"
  /\ DOMAIN parameters = {<<66>>, <<65, 66>>}
  /\ parameters[<<66>>] = <<>>
  /\ parameters[<<65, 66>>] = <<8364, 98>>
  /\ boundary = <<66>>
  /\ disk = OneFile(<<68, 0>>)
  /\ Len(request_body) > 1
  /\ request_body[1] = 45

(***************************************************************************)
(* C8                                                                      *)
(***************************************************************************)
\* the characters 0-9 and A-F
UpperHexChars == (48..57) \cup (65..70)

RECURSIVE HexValue(_)
\* the number a sequence of uppercase hexadecimal digits writes
HexValue(d) ==
  IF d = <<>> THEN 0
  ELSE LET c == d[Len(d)]
       IN  16 * HexValue(SubSeq(d, 1, Len(d) - 1))
           + (IF c <= 57 THEN c - 48 ELSE c - 55)

\* C8: the boundary is 43 characters: 27 '-', then rand0 as 8 uppercase
\* hexadecimal digits, then rand1 as 8 uppercase hexadecimal digits; and the
\* header is "Content-Type: multipart/form-data; boundary=" followed by it.
C8_BoundaryFormat ==
  pc = "GenerateMultipartBoundaryReturned" =>
    /\ Len(boundary) = 43
    /\ \A i \in 1..27 : boundary[i] = 45
    /\ \A i \in 28..43 : boundary[i] \in UpperHexChars
    /\ HexValue(SubSeq(boundary, 28, 35)) = rand0
    /\ HexValue(SubSeq(boundary, 36, 43)) = rand1
    /\ Len(content_type_header) = 44 + 43
    /\ SubSeq(content_type_header, 1, 44) = kContentTypePrefix
    /\ SubSeq(content_type_header, 45, 87) = boundary

\* the boundary of rand() = RAND_MAX, then 10
C8_Witness ==
  /\ pc = "GenerateMultipartBoundaryReturned"
  /\ rand0 = kRandMax
  /\ rand1 = 10
  /\ SubSeq(boundary, 28, 43) = <<48, 48, 48, 48, 55, 70, 70, 70,
                                  48, 48, 48, 48, 48, 48, 48, 65>>

(***************************************************************************)
(* C9                                                                      *)
(***************************************************************************)
\* the place of a capability in the call sequence
Rank(op) == CHOOSE r \in DOMAIN Capabilities : Capabilities[r] = op
\* the places in the log of the calls of the HTTP client other than releases
CapabilityCalls == {i \in 1..Len(calls) : calls[i].op # "InternetCloseHandle"}

\* C9: every capability is called at most once and in the order of the call
\* sequence; InternetConnect only after InternetOpen succeeded,
\* HttpOpenRequest only after InternetConnect succeeded, HttpSendRequest only
\* after HttpOpenRequest succeeded, HttpQueryInfo only after HttpSendRequest
\* succeeded; after a failed open, send or query only handles are released,
\* and the call returns false.
C9_SequentialNoRetry ==
  /\ \A i \in CapabilityCalls : \A j \in CapabilityCalls :
        i < j => Rank(calls[i].op) < Rank(calls[j].op)
  /\ Called("InternetConnect") => Succeeded("InternetOpen")
  /\ Called("HttpOpenRequest") => Succeeded("InternetConnect")
  /\ Called("HttpSendRequest") => Succeeded("HttpOpenRequest")
  /\ Called("HttpQueryInfo") => Succeeded("HttpSendRequest")
  /\ \A i \in 1..Len(calls) :
        (calls[i].op \in FallibleSteps /\ calls[i].ret = 0)
          => /\ \A j \in (i + 1)..Len(calls) : calls[j].op = "InternetCloseHandle"
             /\ pc \in {"done", "crashed"}
             /\ result = FALSE

\* HttpSendRequest failed, and the call returned after the five calls before
\* it and the three releases
C9_Witness ==
  /\ Returned
  /\ ~smashed
  /\ Failed("HttpSendRequest")
  /\ Cardinality(CapabilityCalls) = 5
  /\ Len(calls) = 8

(***************************************************************************)
(* C10                                                                     *)
(***************************************************************************)
\* C10: once HttpOpenRequest has succeeded and the statement after it has
\* run, HttpAddRequestHeaders was called exactly once, with the Content-Type
\* header of the generated boundary; and when the call has returned,
\* HttpSendRequest was called and the result is true exactly if the send and
\* the status query succeeded with "200", whatever the header call returned.
C10_HeaderFailureNotFatal ==
  /\ (Succeeded("HttpOpenRequest") /\ pc # "HttpAddRequestHeaders")
       => /\ Cardinality(CallsOf("HttpAddRequestHeaders")) = 1
          /\ \A i \in CallsOf("HttpAddRequestHeaders") :
                /\ calls[i].arg = kContentTypePrefix \o boundary
                /\ Len(boundary) = 43
                /\ HexValue(SubSeq(boundary, 28, 35)) = rand0
                /\ HexValue(SubSeq(boundary, 36, 43)) = rand1
  /\ (Succeeded("HttpOpenRequest") /\ Returned)
       => /\ Called("HttpSendRequest")
          /\ result = (/\ Succeeded("HttpSendRequest")
                       /\ \E i \in CallsOf("HttpQueryInfo") :
                             calls[i].ret # 0 /\ calls[i].arg = k200)

\* HttpAddRequestHeaders failed, and the call returned true
C10_Witness ==
  /\ Returned
  /\ ~smashed
  /\ Failed("HttpAddRequestHeaders")
  /\ Succeeded("HttpSendRequest")
  /\ result = TRUE

=============================================================================
